---- MODULE Spec2Model ----
(***************************************************************************)
(* Model of the Newsletter and User REST controllers of                    *)
(* kindle-periodical-sender: the permission evaluator (getPermissions),    *)
(* the request validation step (validate) and every controller action,     *)
(* over a store of users and newsletters.  One action of the model is one  *)
(* request served by one controller method.  For the last request served   *)
(* the model keeps the request, the caller record that was loaded, the     *)
(* derived permissions, the ordered trace of what the handler did          *)
(* (responses, loads, service mutations, audit log lines, next() calls),   *)
(* the error it threw and the items a listing returned.                    *)
(***************************************************************************)
EXTENDS Integers, Sequences, FiniteSets, TLC

\* ---------------------------------------------------------------- bounds
MaxUserId == 3
MaxNewsletterId == 1
MaxRequests == 2

UserIds == 1..MaxUserId
NewsletterIds == 1..MaxNewsletterId

\* Names are short sequences of letters; a name filter is a letter sequence
\* (empty: no filter given, `if (req.query.name)` is falsy).
Names == {<<1>>, <<1, 2>>}
NameQueries == {<<>>, <<2>>}

\* ---------------------------------------------------------- HTTP statuses
OK == 200
CREATED == 201
NO_CONTENT == 204
UNPROCESSABLE_ENTITY == 422

\* ------------------------------------------------------------------ store
NoUser ==
    [exists |-> FALSE, id |-> 0, name |-> <<>>, super |-> FALSE,
     pendingConfirm |-> FALSE, pendingPassword |-> FALSE]

NoNewsletter ==
    [exists |-> FALSE, id |-> 0, name |-> <<>>, userId |-> 0, active |-> FALSE]

VARIABLES users, newsletters, served, req, loggedUser, perm, trace, thrown, body

vars == <<users, newsletters, served, req, loggedUser, perm, trace, thrown, body>>

\* ----------------------------------------------------------------- events
Ev(k, op, id, owner, dtoUserId, fields, by, status) ==
    [k |-> k, op |-> op, id |-> id, owner |-> owner, dtoUserId |-> dtoUserId,
     fields |-> fields, by |-> by, status |-> status]

ResEv(status) == Ev("res", "json", 0, 0, 0, {}, 0, status)
LoadEv(op, id) == Ev("load", op, id, 0, 0, {}, 0, 0)
SvcEv(op, id, owner, dtoUserId, fields) == Ev("svc", op, id, owner, dtoUserId, fields, 0, 0)
LogEv(entity, id, action, by) == Ev("log", action, id, 0, 0, {entity}, by, 0)
NextEv(arg) == Ev("next", arg, 0, 0, 0, {}, 0, 0)

Events(t) == {t[i] : i \in 1..Len(t)}
Mutations(t) == {e \in Events(t) : e.k = "svc"}
Responses(t) == {e \in Events(t) : e.k = "res"}
Logs(t) == {e \in Events(t) : e.k = "log"}
Loads(t) == {e \in Events(t) : e.k = "load"}

\* ------------------------------------------- the running handler's context
\* us, ns: the store as the handler sees it; t: what it did so far;
\* err: the error it threw ("none" while it runs); lu, oh, su, pok: the
\* result of getPermissions; items: the ids a listing returned.
Ctx(us, ns) ==
    [us |-> us, ns |-> ns, t |-> <<>>, err |-> "none", lu |-> NoUser,
     pok |-> FALSE, oh |-> FALSE, su |-> FALSE, items |-> {}]

Emit(c, e) == [c EXCEPT !.t = Append(@, e)]
Throw(c, e) == [c EXCEPT !.err = e]

\* res.status(s).json(...): the first response of a request is sent; writing a
\* response once one was sent throws (headers already sent), nothing is sent.
Respond(c, status) ==
    IF Responses(c.t) # {}
    THEN Throw(Emit(c, Ev("res2", "json", 0, 0, 0, {}, 0, status)), "HeadersSent")
    ELSE Emit(c, ResEv(status))

\* validate(req, res): answers 422 when validationResult(req) holds errors.
\* Its return value is not used by any caller: the handler goes on.
Validate(c, r) ==
    IF r.hasErrors THEN Respond(c, UNPROCESSABLE_ENTITY) ELSE c

\* ------------------------------------------------- services (collaborators)
Contains(n, q) ==
    \E i \in 0..(Len(n) - Len(q)) : \A j \in 1..Len(q) : n[i + j] = q[j]

UserServiceFindById(us, id) == IF id \in DOMAIN us THEN us[id] ELSE NoUser

UserServiceFindAll(us, q) ==
    {i \in DOMAIN us : us[i].exists /\ (q = <<>> \/ Contains(us[i].name, q))}

UserServiceRemove(us, u) == [us EXCEPT ![u.id] = NoUser]

FreeUserIds(us) == {i \in DOMAIN us : ~us[i].exists}
FreeNewsletterIds(ns) == {i \in DOMAIN ns : ~ns[i].exists}
Min(S) == CHOOSE x \in S : \A y \in S : x <= y

UserServiceSave(us, dto) ==
    LET i == Min(FreeUserIds(us))
    IN [us EXCEPT ![i] = [exists |-> TRUE, id |-> i, name |-> dto.name,
                          super |-> dto.superUser, pendingConfirm |-> dto.superUser,
                          pendingPassword |-> FALSE]]

\* edit(user, dto) and editById(id, dto): the fields the dto carries are written.
UserServiceEdit(us, id, dto) ==
    [us EXCEPT ![id] =
        [@ EXCEPT !.name = IF "name" \in dto.fields THEN dto.name ELSE @,
                  !.pendingConfirm =
                      IF "pendingConfirm" \in dto.fields THEN dto.pendingConfirm ELSE @]]

UserServicePromote(us, id) ==
    [us EXCEPT ![id] = [@ EXCEPT !.super = TRUE, !.pendingConfirm = TRUE]]

NewsletterServiceFindById(ns, id) == IF id \in DOMAIN ns THEN ns[id] ELSE NoNewsletter

\* findAll(filter): filter.userId = 0 stands for no userId in the filter.
NewsletterServiceFindAll(ns, userId, q) ==
    {i \in DOMAIN ns : /\ ns[i].exists
                       /\ (userId = 0 \/ ns[i].userId = userId)
                       /\ (q = <<>> \/ Contains(ns[i].name, q))}

NewsletterServiceSave(ns, dto) ==
    LET i == Min(FreeNewsletterIds(ns))
    IN [ns EXCEPT ![i] = [exists |-> TRUE, id |-> i, name |-> dto.name,
                          userId |-> dto.userId, active |-> TRUE]]

NewsletterServiceEdit(ns, n, dto) ==
    [ns EXCEPT ![n.id] = [@ EXCEPT !.name = dto.name, !.userId = dto.userId]]

NewsletterServiceSetActive(ns, n, a) == [ns EXCEPT ![n.id] = [@ EXCEPT !.active = a]]

NewsletterServiceRemove(ns, n) == [ns EXCEPT ![n.id] = NoNewsletter]

\* ------------------------------------------------------------ permissions
\* NewsletterController.getPermissions(req, blockedByChangePassword)
NewsletterGetPermissions(c, r, blockedByChangePassword) ==
    LET u == UserServiceFindById(c.us, r.userId)
        c1 == [Emit(c, LoadEv("userService.findById", r.userId)) EXCEPT !.lu = u]
    IN IF ~u.exists THEN Throw(c1, "Unauthorized")
       ELSE IF blockedByChangePassword /\ u.pendingPassword THEN Throw(c1, "Forbidden")
       ELSE [c1 EXCEPT !.pok = TRUE,
                      !.oh = (~u.super) \/ (u.super /\ u.pendingConfirm),
                      !.su = u.super /\ ~u.pendingConfirm]

\* Mutant: permissionSuper computed without the pendingConfirm test.
UserGetPermissions_SuperWhilePending(c, r, blockChangePassword) ==
    LET u == UserServiceFindById(c.us, r.userId)
        c1 == [Emit(c, LoadEv("userService.findById", r.userId)) EXCEPT !.lu = u]
    IN IF ~u.exists THEN Throw(c1, "Unauthorized")
       ELSE IF blockChangePassword /\ u.pendingPassword THEN Throw(c1, "Forbidden")
       ELSE [c1 EXCEPT !.pok = TRUE,
                      !.oh = (~u.super) \/ (u.super /\ u.pendingConfirm),
                      !.su = u.super]

\* UserController.getPermissions(req, blockChangePassword)
UserGetPermissions(c, r, blockChangePassword) ==
    LET u == UserServiceFindById(c.us, r.userId)
        c1 == [Emit(c, LoadEv("userService.findById", r.userId)) EXCEPT !.lu = u]
    IN IF ~u.exists THEN Throw(c1, "Unauthorized")
       ELSE IF blockChangePassword /\ u.pendingPassword THEN Throw(c1, "Forbidden")
       ELSE [c1 EXCEPT !.pok = TRUE,
                      !.oh = (~u.super) \/ (u.super /\ u.pendingConfirm),
                      !.su = u.super /\ ~u.pendingConfirm]

\* NewsletterController.logActivity(entity, action, loggedUser)
LogActivity(c, entity, id, action) == Emit(c, LogEv(entity, id, action, c.lu.id))

\* --------------------------------------------------------------- requests
\* req.userId: the authenticated caller; id: req.params.id; hasErrors: whether
\* validationResult(req) holds errors; dtoUserId, name, flag: req.body
\* (userId, name, and super / pendingConfirm); qName, qLoggedUser: req.query.
Req(ctrl, action, userId, id, hasErrors, dtoUserId, name, flag, qName, qLoggedUser) ==
    [ctrl |-> ctrl, action |-> action, userId |-> userId, id |-> id,
     hasErrors |-> hasErrors, dtoUserId |-> dtoUserId, name |-> name, flag |-> flag,
     qName |-> qName, qLoggedUser |-> qLoggedUser]

NoReq == Req("none", "none", 0, 0, FALSE, 0, <<>>, FALSE, <<>>, FALSE)

\* ---------------------------------------------------- NewsletterController
\* Mutant: the null check dropped.
NewsletterNotFound_Never(n) == FALSE

\* `requestedNewsletter == null`
NewsletterNotFound(n) == ~n.exists

\* `permissionOnlyHimself && requestedNewsletter.userId !== loggedUser.id`
NewsletterOfAnother(c, n) == c.oh /\ n.userId # c.lu.id

\* create: `permissionOnlyHimself && loggedUser.id !== newsletterDto.userId`
NewsletterCreateForAnother(c, r) == c.oh /\ c.lu.id # r.dtoUserId

\* Mutant: the transfer check dropped.
NewsletterTransfer_Allowed(c, n, r) == FALSE

\* edit: `permissionOnlyHimself && requestedNewsletter.userId !== newsletterDto.userId`
NewsletterTransfer(c, n, r) == c.oh /\ n.userId # r.dtoUserId

\* listAllFromLoggedUser: sets req.query.loggedUser and calls the unbound name
\* listAll, which is no variable in scope of the method.
NewsletterListAllFromLoggedUser(c, r) == Throw(c, "ReferenceError")

NewsletterListAll(c, r) ==
    LET c1 == Validate(c, r)
        c2 == NewsletterGetPermissions(c1, r, TRUE)
        userId == IF c2.oh \/ r.qLoggedUser THEN c2.lu.id ELSE 0
        c3 == Emit(c2, LoadEv("newsletterService.findAll", userId))
        c4 == Respond(c3, OK)
    IN IF c2.err # "none" THEN c2
       ELSE IF c4.err # "none" THEN c4
       ELSE [c4 EXCEPT !.items = NewsletterServiceFindAll(c.ns, userId, r.qName)]

NewsletterFindById(c, r) ==
    LET c1 == Validate(c, r)
        c2 == NewsletterGetPermissions(c1, r, TRUE)
        n == NewsletterServiceFindById(c.ns, r.id)
        c3 == Emit(c2, LoadEv("newsletterService.findById", r.id))
    IN IF c2.err # "none" THEN c2
       ELSE IF NewsletterNotFound(n) THEN Throw(c3, "NotFound")
       ELSE IF NewsletterOfAnother(c3, n) THEN Throw(c3, "Forbidden")
       ELSE Respond(c3, OK)

NewsletterCreate(c, r) ==
    LET c1 == Validate(c, r)
        c2 == NewsletterGetPermissions(c1, r, TRUE)
        dto == [name |-> r.name, userId |-> r.dtoUserId]
        newId == Min(FreeNewsletterIds(c.ns))
        c3 == [Emit(c2, SvcEv("newsletterService.save", newId, r.dtoUserId, r.dtoUserId,
                              {"name", "userId"}))
                  EXCEPT !.ns = NewsletterServiceSave(c.ns, dto)]
        c4 == Respond(c3, CREATED)
    IN IF c2.err # "none" THEN c2
       ELSE IF NewsletterCreateForAnother(c2, r) THEN Throw(c2, "Forbidden")
       ELSE IF c4.err # "none" THEN c4
       ELSE LogActivity(c4, "Newsletter", newId, "was created")

NewsletterEdit(c, r) ==
    LET c1 == Validate(c, r)
        c2 == NewsletterGetPermissions(c1, r, TRUE)
        n == NewsletterServiceFindById(c.ns, r.id)
        dto == [name |-> r.name, userId |-> r.dtoUserId]
        c3 == Emit(c2, LoadEv("newsletterService.findById", r.id))
        c4 == [Emit(c3, SvcEv("newsletterService.edit", n.id, n.userId, r.dtoUserId,
                              {"name", "userId"}))
                  EXCEPT !.ns = NewsletterServiceEdit(c.ns, n, dto)]
        c5 == Respond(c4, OK)
    IN IF c2.err # "none" THEN c2
       ELSE IF NewsletterNotFound(n) THEN Throw(c3, "NotFound")
       ELSE IF NewsletterOfAnother(c3, n) THEN Throw(c3, "Forbidden")
       ELSE IF NewsletterTransfer(c3, n, r) THEN Throw(c3, "Forbidden")
       ELSE IF c5.err # "none" THEN c5
       ELSE LogActivity(c5, "Newsletter", n.id, "was edited")

\* activate, deactivate and remove share one shape: load, checks, the service
\* call, and in its .then() the response and the log line.
NewsletterMutate(c, r, op, status, action) ==
    LET c1 == Validate(c, r)
        c2 == NewsletterGetPermissions(c1, r, TRUE)
        n == NewsletterServiceFindById(c.ns, r.id)
        c3 == Emit(c2, LoadEv("newsletterService.findById", r.id))
        ns2 == CASE op = "newsletterService.activate" ->
                        NewsletterServiceSetActive(c.ns, n, TRUE)
                 [] op = "newsletterService.deactivate" ->
                        NewsletterServiceSetActive(c.ns, n, FALSE)
                 [] op = "newsletterService.remove" -> NewsletterServiceRemove(c.ns, n)
        c4 == [Emit(c3, SvcEv(op, n.id, n.userId, 0, {})) EXCEPT !.ns = ns2]
        c5 == Respond(c4, status)
    IN IF c2.err # "none" THEN c2
       ELSE IF NewsletterNotFound(n) THEN Throw(c3, "NotFound")
       ELSE IF NewsletterOfAnother(c3, n) THEN Throw(c3, "Forbidden")
       ELSE IF c5.err # "none" THEN c5
       ELSE LogActivity(c5, "Newsletter", n.id, action)

NewsletterActivate(c, r) ==
    NewsletterMutate(c, r, "newsletterService.activate", OK, "was activated")

NewsletterDeactivate(c, r) ==
    NewsletterMutate(c, r, "newsletterService.deactivate", OK, "was deactivated")

NewsletterRemove(c, r) ==
    NewsletterMutate(c, r, "newsletterService.remove", NO_CONTENT, "was removed")

\* ---------------------------------------------------------- UserController
\* `requestedUser == null`
UserNotFound(u) == ~u.exists

\* Mutant: the self-only branch passes pendingConfirm on, as the unrestricted one does.
UserEditSelfDto_WithPendingConfirm(r) ==
    [name |-> r.name, pendingConfirm |-> r.flag,
     fields |-> {"name", "email", "password", "pendingConfirm"}]

\* edit, self-only branch: `const {name, email, password} = req.body`
UserEditSelfDto(r) ==
    [name |-> r.name, pendingConfirm |-> r.flag, fields |-> {"name", "email", "password"}]

\* edit, unrestricted branch: name, email, password and pendingConfirm
UserEditDto(r) ==
    [name |-> r.name, pendingConfirm |-> r.flag,
     fields |-> {"name", "email", "password", "pendingConfirm"}]

\* Mutant: the self-promotion check dropped.
UserPromoteYourself_Allowed(c, r) == FALSE

\* promote: `loggedUser.id === requestedId`
UserPromoteYourself(c, r) == c.lu.id = r.id

UserListAll(c, r) ==
    LET c1 == Validate(c, r)
        c2 == UserGetPermissions(c1, r, TRUE)
        c3 == IF ~c2.oh THEN Emit(c2, LoadEv("userService.findAll", 0)) ELSE c2
        c4 == Respond(c3, OK)
        items == IF ~c2.oh THEN UserServiceFindAll(c.us, r.qName) ELSE {c2.lu.id}
    IN IF c2.err # "none" THEN c2
       ELSE IF c4.err # "none" THEN c4
       ELSE Emit([c4 EXCEPT !.items = items], NextEv("none"))

UserFindById(c, r) ==
    LET c1 == Validate(c, r)
        c2 == UserGetPermissions(c1, r, FALSE)
        u == UserServiceFindById(c.us, r.id)
        c3 == Emit(c2, LoadEv("userService.findById", r.id))
        self == Respond(c2, OK)
        other == Respond(c3, OK)
    IN IF c2.err # "none" THEN c2
       ELSE IF c2.oh
            THEN IF c2.lu.id # r.id THEN Throw(c2, "Forbidden")
                 ELSE IF c2.lu.pendingPassword THEN Throw(c2, "Forbidden")
                 ELSE IF self.err # "none" THEN self
                 ELSE Emit(self, NextEv("res"))
       ELSE IF UserNotFound(u) THEN Throw(c3, "NotFound")
       ELSE IF other.err # "none" THEN other
       ELSE Emit(other, NextEv("none"))

\* remove, from `if (loggedUser.id === requestedId && loggedUser.pendingPassword)`
\* on: the generic path, which the self-only branch runs into as well.
UserRemoveGeneric(c, r) ==
    LET u == UserServiceFindById(c.us, r.id)
        c1 == Emit(c, LoadEv("userService.findById", r.id))
        c2 == [Emit(c1, SvcEv("userService.remove", u.id, u.id, 0, {}))
                  EXCEPT !.us = UserServiceRemove(c.us, u)]
        c3 == Respond(c2, NO_CONTENT)
    IN IF c.lu.id = r.id /\ c.lu.pendingPassword THEN Throw(c, "Forbidden")
       ELSE IF UserNotFound(u) THEN Throw(c1, "NotFound")
       ELSE IF c3.err # "none" THEN c3
       ELSE Emit(c3, NextEv("none"))

UserRemove(c, r) ==
    LET c1 == Validate(c, r)
        c2 == UserGetPermissions(c1, r, FALSE)
        c3 == [Emit(c2, SvcEv("userService.remove", c2.lu.id, c2.lu.id, 0, {}))
                  EXCEPT !.us = UserServiceRemove(c.us, c2.lu)]
        c4 == Respond(c3, NO_CONTENT)
    IN IF c2.err # "none" THEN c2
       ELSE IF c2.oh
            THEN IF c2.lu.id # r.id THEN Throw(c2, "Forbidden")
                 ELSE IF c2.lu.pendingPassword THEN Throw(c2, "Forbidden")
                 ELSE IF c4.err # "none" THEN c4
                 ELSE UserRemoveGeneric(Emit(c4, NextEv("res")), r)
       ELSE UserRemoveGeneric(c2, r)

UserCreate(c, r) ==
    LET c1 == Validate(c, r)
        c2 == UserGetPermissions(c1, r, TRUE)
        dto == [name |-> r.name, superUser |-> r.flag]
        newId == Min(FreeUserIds(c.us))
        c3 == [Emit(c2, SvcEv("userService.save", newId, newId, 0,
                              {"name", "email", "password", "superUser"}))
                  EXCEPT !.us = UserServiceSave(c.us, dto)]
        c4 == Respond(c3, CREATED)
    IN IF c2.err # "none" THEN c2
       ELSE IF c2.oh THEN Throw(c2, "Forbidden")
       ELSE IF c4.err # "none" THEN c4
       ELSE Emit(c4, NextEv("none"))

UserEdit(c, r) ==
    LET c1 == Validate(c, r)
        c2 == UserGetPermissions(c1, r, TRUE)
        sdto == UserEditSelfDto(r)
        s1 == [Emit(c2, SvcEv("userService.edit", c2.lu.id, c2.lu.id, 0, sdto.fields))
                  EXCEPT !.us = UserServiceEdit(c.us, c2.lu.id, sdto)]
        s2 == Respond(s1, OK)
        dto == UserEditDto(r)
        target == UserServiceFindById(c.us, r.id)
        g1 == [Emit(c2, SvcEv("userService.editById", r.id, r.id, 0, dto.fields))
                  EXCEPT !.us = UserServiceEdit(c.us, r.id, dto)]
        g2 == Respond(g1, OK)
    IN IF c2.err # "none" THEN c2
       ELSE IF c2.oh
            THEN IF c2.lu.id # r.id THEN Throw(c2, "Forbidden")
                 ELSE IF s2.err # "none" THEN s2
                 ELSE Emit(s2, NextEv("res"))
       \* editById on an id the store does not hold: the service's failure propagates
       ELSE IF ~target.exists THEN Throw(c2, "NotFound")
       ELSE IF g2.err # "none" THEN g2
       ELSE Emit(g2, NextEv("none"))

UserPromote(c, r) ==
    LET c1 == Validate(c, r)
        c2 == UserGetPermissions(c1, r, TRUE)
        target == UserServiceFindById(c.us, r.id)
        c3 == [Emit(c2, SvcEv("userService.promote", r.id, r.id, 0, {}))
                  EXCEPT !.us = UserServicePromote(c.us, r.id)]
        c4 == Respond(c3, OK)
    IN IF c2.err # "none" THEN c2
       ELSE IF ~c2.su THEN Throw(c2, "Forbidden")
       ELSE IF UserPromoteYourself(c2, r) THEN Throw(c2, "BadRequest")
       \* promote of an id the store does not hold: the service's failure propagates
       ELSE IF ~target.exists THEN Throw(c2, "NotFound")
       ELSE IF c4.err # "none" THEN c4
       ELSE Emit(c4, NextEv("none"))

\* ---------------------------------------------------------- state machine
\* The store before the first request: every user but the last id exists,
\* user 1 with any combination of the three flags and the others as ordinary
\* confirmed accounts; newsletter 1 exists, owned by any of them.  The last
\* user id and the other newsletter ids are free.
InitUsers ==
    {us \in [UserIds -> {NoUser} \cup
                 [exists : {TRUE}, id : UserIds, name : {<<1>>}, super : BOOLEAN,
                  pendingConfirm : BOOLEAN, pendingPassword : BOOLEAN]] :
        \A i \in UserIds :
           /\ us[i].exists <=> i < MaxUserId
           /\ us[i].exists =>
                 /\ us[i].id = i
                 /\ (i # 1 => ~us[i].super /\ ~us[i].pendingConfirm /\ ~us[i].pendingPassword)}

InitNewsletters ==
    {ns \in [NewsletterIds -> {NoNewsletter} \cup
                 [exists : {TRUE}, id : NewsletterIds, name : {<<1>>},
                  userId : 1..(MaxUserId - 1), active : {TRUE}]] :
        \A i \in NewsletterIds :
           /\ ns[i].exists <=> i = 1
           /\ ns[i].exists => ns[i].id = i}

NoPerm == [ok |-> FALSE, onlyHimself |-> FALSE, super |-> FALSE]

Init ==
    /\ users \in InitUsers
    /\ newsletters \in InitNewsletters
    /\ served = 0
    /\ req = NoReq
    /\ loggedUser = NoUser
    /\ perm = NoPerm
    /\ trace = <<>>
    /\ thrown = "none"
    /\ body = {}

\* One request served: r is the request, c the handler's context at its end.
\* Requests are served one after the other.
Serve(r, c) ==
    /\ req = NoReq
    /\ served < MaxRequests
    /\ served' = served + 1
    /\ users' = c.us
    /\ newsletters' = c.ns
    /\ req' = r
    /\ loggedUser' = c.lu
    /\ perm' = [ok |-> c.pok, onlyHimself |-> c.oh, super |-> c.su]
    /\ trace' = c.t
    /\ thrown' = c.err
    /\ body' = c.items

Start == Ctx(users, newsletters)

DoNewsletterListAllFromLoggedUser ==
    \E u \in UserIds :
        LET r == Req("Newsletter", "listAllFromLoggedUser", u, 0, FALSE, 0, <<>>, FALSE,
                     <<>>, TRUE)
        IN Serve(r, NewsletterListAllFromLoggedUser(Start, r))

DoNewsletterListAll ==
    \E u \in UserIds, e \in BOOLEAN, q \in NameQueries, l \in BOOLEAN :
        LET r == Req("Newsletter", "listAll", u, 0, e, 0, <<>>, FALSE, q, l)
        IN Serve(r, NewsletterListAll(Start, r))

DoNewsletterFindById ==
    \E u \in UserIds, i \in NewsletterIds, e \in BOOLEAN :
        LET r == Req("Newsletter", "findById", u, i, e, 0, <<>>, FALSE, <<>>, FALSE)
        IN Serve(r, NewsletterFindById(Start, r))

DoNewsletterCreate ==
    /\ FreeNewsletterIds(newsletters) # {}
    /\ \E u \in UserIds, e \in BOOLEAN, o \in UserIds, n \in Names :
        LET r == Req("Newsletter", "create", u, 0, e, o, n, FALSE, <<>>, FALSE)
        IN Serve(r, NewsletterCreate(Start, r))

DoNewsletterEdit ==
    \E u \in UserIds, i \in NewsletterIds, e \in BOOLEAN, o \in UserIds, n \in Names :
        LET r == Req("Newsletter", "edit", u, i, e, o, n, FALSE, <<>>, FALSE)
        IN Serve(r, NewsletterEdit(Start, r))

DoNewsletterActivate ==
    \E u \in UserIds, i \in NewsletterIds, e \in BOOLEAN :
        LET r == Req("Newsletter", "activate", u, i, e, 0, <<>>, FALSE, <<>>, FALSE)
        IN Serve(r, NewsletterActivate(Start, r))

DoNewsletterDeactivate ==
    \E u \in UserIds, i \in NewsletterIds, e \in BOOLEAN :
        LET r == Req("Newsletter", "deactivate", u, i, e, 0, <<>>, FALSE, <<>>, FALSE)
        IN Serve(r, NewsletterDeactivate(Start, r))

DoNewsletterRemove ==
    \E u \in UserIds, i \in NewsletterIds, e \in BOOLEAN :
        LET r == Req("Newsletter", "remove", u, i, e, 0, <<>>, FALSE, <<>>, FALSE)
        IN Serve(r, NewsletterRemove(Start, r))

DoUserListAll ==
    \E u \in UserIds, e \in BOOLEAN, q \in NameQueries :
        LET r == Req("User", "listAll", u, 0, e, 0, <<>>, FALSE, q, FALSE)
        IN Serve(r, UserListAll(Start, r))

DoUserFindById ==
    \E u \in UserIds, i \in UserIds, e \in BOOLEAN :
        LET r == Req("User", "findById", u, i, e, 0, <<>>, FALSE, <<>>, FALSE)
        IN Serve(r, UserFindById(Start, r))

DoUserRemove ==
    \E u \in UserIds, i \in UserIds, e \in BOOLEAN :
        LET r == Req("User", "remove", u, i, e, 0, <<>>, FALSE, <<>>, FALSE)
        IN Serve(r, UserRemove(Start, r))

DoUserCreate ==
    /\ FreeUserIds(users) # {}
    /\ \E u \in UserIds, e \in BOOLEAN, n \in Names, f \in BOOLEAN :
        LET r == Req("User", "create", u, 0, e, 0, n, f, <<>>, FALSE)
        IN Serve(r, UserCreate(Start, r))

DoUserEdit ==
    \E u \in UserIds, i \in UserIds, e \in BOOLEAN, n \in Names, f \in BOOLEAN :
        LET r == Req("User", "edit", u, i, e, 0, n, f, <<>>, FALSE)
        IN Serve(r, UserEdit(Start, r))

DoUserPromote ==
    \E u \in UserIds, i \in UserIds, e \in BOOLEAN :
        LET r == Req("User", "promote", u, i, e, 0, <<>>, FALSE, <<>>, FALSE)
        IN Serve(r, UserPromote(Start, r))

\* The request's lifetime ends: what was loaded and derived for it is dropped.
EndRequest ==
    /\ req # NoReq
    /\ req' = NoReq
    /\ loggedUser' = NoUser
    /\ perm' = NoPerm
    /\ trace' = <<>>
    /\ thrown' = "none"
    /\ body' = {}
    /\ UNCHANGED <<users, newsletters, served>>

Next ==
    \/ DoNewsletterListAllFromLoggedUser
    \/ DoNewsletterListAll
    \/ DoNewsletterFindById
    \/ DoNewsletterCreate
    \/ DoNewsletterEdit
    \/ DoNewsletterActivate
    \/ DoNewsletterDeactivate
    \/ DoNewsletterRemove
    \/ DoUserListAll
    \/ DoUserFindById
    \/ DoUserRemove
    \/ DoUserCreate
    \/ DoUserEdit
    \/ DoUserPromote
    \/ EndRequest

Spec == Init /\ [][Next]_vars

\* ------------------------------------------------------------- properties
Success(t) == {e \in Responses(t) : e.status \in {OK, CREATED, NO_CONTENT}}
RequestedNewsletter == NewsletterServiceFindById(newsletters, req.id)
RequestedUser == UserServiceFindById(users, req.id)

\* C1: whenever getPermissions returns, in either controller, the flags follow
\* the truth table over the caller's super and pendingConfirm, and exactly one
\* of permissionOnlyHimself and permissionSuper is true.
C1_PermissionTruthTable ==
    perm.ok =>
        /\ (~loggedUser.super => perm.onlyHimself /\ ~perm.super)
        /\ (loggedUser.super /\ loggedUser.pendingConfirm => perm.onlyHimself /\ ~perm.super)
        /\ (loggedUser.super /\ ~loggedUser.pendingConfirm => ~perm.onlyHimself /\ perm.super)
        /\ (perm.onlyHimself <=> ~perm.super)

C1_Witness ==
    /\ perm.ok
    /\ req.ctrl = "User"
    /\ loggedUser.super
    /\ loggedUser.pendingConfirm
    /\ perm.onlyHimself

\* C2: in a Newsletter request of a caller with permissionOnlyHimself every
\* service mutation is on a newsletter the caller owns, save and edit carry the
\* caller's id as userId, and a request for another owner's newsletter, or with
\* another userId in the payload, throws Forbidden without any mutation.
C2_ForAnother ==
    \/ req.action = "create" /\ req.dtoUserId # loggedUser.id
    \/ /\ req.action \in {"edit", "activate", "deactivate", "remove"}
       /\ RequestedNewsletter.exists
       /\ RequestedNewsletter.userId # loggedUser.id
    \/ /\ req.action = "edit"
       /\ RequestedNewsletter.exists
       /\ req.dtoUserId # loggedUser.id

C2_OwnNewslettersOnly ==
    (req.ctrl = "Newsletter" /\ perm.ok /\ perm.onlyHimself) =>
        /\ \A e \in Mutations(trace) :
              /\ e.owner = loggedUser.id
              /\ (e.op \in {"newsletterService.save", "newsletterService.edit"}
                     => e.dtoUserId = loggedUser.id)
        /\ (C2_ForAnother => thrown = "Forbidden" /\ Mutations(trace) = {})

C2_Witness ==
    /\ req.ctrl = "Newsletter"
    /\ req.action = "edit"
    /\ perm.onlyHimself
    /\ \E e \in Mutations(trace) : e.op = "newsletterService.edit" /\ e.owner = loggedUser.id
    /\ thrown = "none"

\* C3 (as claimed): a request that threw Unauthorized, Forbidden, NotFound or
\* BadRequest invoked no service mutation before it.
C3_FailureHasNoSideEffect ==
    thrown \in {"Unauthorized", "Forbidden", "NotFound", "BadRequest"}
        => Mutations(trace) = {}

\* C4 (as claimed): a request whose validation reported errors did nothing but
\* answer 422: no caller or target load, no mutation, no second response.
C4_ValidationShortCircuits ==
    req.hasErrors => trace = <<ResEv(UNPROCESSABLE_ENTITY)>>

\* C5 (as claimed): findById on an id the store does not hold throws NotFound
\* for every caller getPermissions accepted, in both controllers.
C5_AbsentIsNotFound ==
    (req.action = "findById" /\ perm.ok) =>
        /\ (req.ctrl = "Newsletter" /\ ~RequestedNewsletter.exists => thrown = "NotFound")
        /\ (req.ctrl = "User" /\ ~RequestedUser.exists => thrown = "NotFound")

\* C5 (amended): findById on an id the store does not hold throws NotFound in
\* the Newsletter controller for every caller and in the User controller for an
\* unrestricted caller; a permissionOnlyHimself caller of the User controller
\* gets Forbidden and the target is never loaded.
C5_AbsentIsNotFoundButSelfOnlyUser ==
    (req.action = "findById" /\ perm.ok) =>
        /\ (req.ctrl = "Newsletter" /\ ~RequestedNewsletter.exists => thrown = "NotFound")
        /\ (req.ctrl = "User" /\ ~RequestedUser.exists /\ ~perm.onlyHimself
               => thrown = "NotFound")
        /\ (req.ctrl = "User" /\ ~RequestedUser.exists /\ perm.onlyHimself
               => thrown = "Forbidden" /\ \A e \in Loads(trace) : e.id # req.id)

C5_Witness ==
    /\ req.ctrl = "Newsletter"
    /\ req.action = "findById"
    /\ perm.onlyHimself
    /\ ~RequestedNewsletter.exists
    /\ thrown = "NotFound"

\* C6 (as claimed): a request of a caller whose record has pendingPassword
\* throws Forbidden, invokes no mutation and sends no success response.
C6_PendingPasswordBlocks ==
    (loggedUser.exists /\ loggedUser.pendingPassword) =>
        /\ thrown = "Forbidden"
        /\ Mutations(trace) = {}
        /\ Success(trace) = {}

\* C7: promote of the caller's own id by a caller with permissionSuper throws
\* BadRequest, userService.promote is never invoked with the caller's id and no
\* success is answered; promote by a caller whose record does not give
\* permissionSuper throws Forbidden whatever the target id.
C7_Promote ==
    (req.ctrl = "User" /\ req.action = "promote") =>
        /\ (perm.ok /\ perm.super /\ req.id = req.userId => thrown = "BadRequest")
        /\ (req.id = req.userId => Success(trace) = {})
        /\ \A e \in Mutations(trace) : e.op = "userService.promote" => e.id # req.userId
        /\ (loggedUser.exists /\ ~(loggedUser.super /\ ~loggedUser.pendingConfirm)
               => thrown = "Forbidden")

C7_Witness ==
    /\ req.ctrl = "User"
    /\ req.action = "promote"
    /\ perm.super
    /\ req.id = req.userId
    /\ thrown = "BadRequest"

\* C8 (as claimed): a listing answered to a permissionOnlyHimself caller holds
\* only the caller's newsletters, or only the caller's own user record, and no
\* returned item fails a name filter that was given.
C8_ListRestrictedAndFiltered ==
    (req.action = "listAll" /\ perm.ok /\ thrown = "none") =>
        /\ (req.ctrl = "Newsletter" /\ perm.onlyHimself
               => \A i \in body : newsletters[i].userId = loggedUser.id)
        /\ (req.ctrl = "User" /\ perm.onlyHimself => body = {loggedUser.id})
        /\ (req.ctrl = "Newsletter" /\ req.qName # <<>>
               => \A i \in body : Contains(newsletters[i].name, req.qName))
        /\ (req.ctrl = "User" /\ req.qName # <<>>
               => \A i \in body : Contains(users[i].name, req.qName))

\* C9 (as claimed): every mutation of a request that succeeded has an audit log
\* line for the same entity id, attributed to the caller; a request that threw
\* wrote no log line.
C9_MutationsAreLogged ==
    /\ (thrown = "none" /\ Success(trace) # {}) =>
          \A m \in Mutations(trace) :
             \E l \in Logs(trace) : l.id = m.id /\ l.by = req.userId /\ req.ctrl \in l.fields
    /\ (thrown # "none" => Logs(trace) = {})

\* C10 (one step): a User edit request of a permissionOnlyHimself caller reaches the
\* service only as edit of the caller's own record with name, email and
\* password, and leaves every user's existence, super and pendingConfirm as
\* they were.
C10_Step ==
    (req'.ctrl = "User" /\ req'.action = "edit" /\ perm'.ok /\ perm'.onlyHimself) =>
        /\ \A e \in Mutations(trace') :
              /\ e.op = "userService.edit"
              /\ e.id = req'.userId
              /\ e.fields = {"name", "email", "password"}
        /\ \A i \in UserIds :
              /\ users'[i].exists = users[i].exists
              /\ users'[i].super = users[i].super
              /\ users'[i].pendingConfirm = users[i].pendingConfirm

\* C10: every step of the system satisfies the frame condition above, so no
\* sequence of such edit requests changes a super or pendingConfirm value.
C10_NoEscalationByEdit == [][C10_Step]_vars

C10_Witness ==
    /\ req.ctrl = "User"
    /\ req.action = "edit"
    /\ loggedUser.super
    /\ loggedUser.pendingConfirm
    /\ ~req.flag
    /\ \E e \in Mutations(trace) : e.op = "userService.edit"
    /\ thrown = "none"

====
